---- MODULE Spec2Model ----
(***************************************************************************)
(* The email-event consumer pipeline of internal/email: one partition of   *)
(* the email-events topic, the consumer loop (Consumer.Start /             *)
(* processMessage / processWithRetry / sendToDLQ / commitMessage), the     *)
(* Redis idempotency store (IsProcessed / MarkAsProcessed with SET NX and  *)
(* a TTL), the sender and the dead-letter topic; the cancellation of the   *)
(* consumer's context; and the producer of internal/kafka                  *)
(* (PublishEmailEvent / PublishEmailEventSync and the delivery reports).   *)
(*                                                                         *)
(* Offsets are 1-based positions in log. committed is the number of        *)
(* messages of the partition the group has committed: CommitMessage(msg)   *)
(* stores msg.offset+1, i.e. "everything up to and including msg".         *)
(***************************************************************************)
EXTENDS Integers, Sequences, FiniteSets, TLC

\* ------------------------------------------------------------------ bounds
MaxLog == 2          \* messages appended to the partition (one consumer)
MaxCrashes == 1      \* crashes and restarts of the consumer process
MaxRaceLog == 1      \* messages appended to the partition (two group members)
MaxRebalances == 1   \* reassignments of the partition between the members
MaxConfigRetries == 4 \* largest configured MaxRetries (retry specification)
MaxPublishes == 2    \* messages the producer's client accepts
MaxClock == 2        \* ticks of the gateway's clock

\* ------------------------------------------------------- program constants
MaxRetries == 3
DefaultMaxRetries == 3

Consumers == {"c1", "c2"}
Callers == {"p1", "p2"}
MessageIDs == {"m1", "m2"}

\* What a producer (or anything else) may have appended to the topic: a
\* well-formed envelope, an envelope whose message_id is empty, or bytes that
\* are not an envelope at all.
Payloads ==
  [kind : {"envelope"}, message_id : MessageIDs \cup {""}]
    \cup {[kind |-> "garbage", message_id |-> ""]}

\* What a caller may pass as event interface{}: an EmailEvent, or a value
\* encoding/json cannot serialize (a channel, a func, a cyclic map).
Events ==
  [kind : {"EmailEvent"}, MessageID : MessageIDs \cup {""}]
    \cup {[kind |-> "unsupported", MessageID |-> ""]}

\* An empty delivery channel, and a caller that made no call yet.
\* session ids (uuid strings) the session manager can generate
SessionIDs == {"s1", "s2"}

\* values of the session_id cookie: a generated id, or one never generated
Cookies == SessionIDs \cup {"forged"}

\* c.Cookie returned http.ErrNoCookie
NoCookie == "none"

\* the accounts sessions are created for
Users == {[UserID |-> "u1", Email |-> "a@x"], [UserID |-> "u2", Email |-> "b@x"]}

\* maxAge arguments of Create, in ticks
MaxAges == {1, 2}

\* no value under the key session:<id>
NoSession == [UserID |-> "", Email |-> "", ExpiresAt |-> -1]

\* X-User-ID and X-User-Email as the client sent them: absent, or naming
\* some account
ClientHeaders ==
  {[id |-> <<>>, email |-> <<>>]} \cup {[id |-> <<u.UserID>>, email |-> <<u.Email>>] : u \in Users}

\* no request has gone through the middleware yet
NoRequest ==
  [cookie |-> NoCookie, client |-> [id |-> <<>>, email |-> <<>>], at |-> 0,
   stored |-> NoSession, getErr |-> "none", status |-> 0, handled |-> FALSE,
   xUserID |-> <<>>, xEmail |-> <<>>, user_id |-> "", email |-> ""]

\* no diagnostic call has been made yet
NoDiag == [op |-> "none", status |-> "none", count |-> 0]

NoReport == [msg |-> 0, failed |-> FALSE]

NoCall == [fn |-> "none", event |-> [kind |-> "unsupported", MessageID |-> ""],
           client |-> "not_called", err |-> "none", msg |-> 0]

VARIABLES
  log,        \* the partition: Seq(Payloads)
  committed,  \* committed offset of the consumer group (count of messages)
  owner,      \* the group member the partition is assigned to
  restarts,   \* crashes and rebalances so far
  pc,         \* per consumer: where it is in Start / processMessage
  pos,        \* per consumer: next offset ReadMessage fetches
  cur,        \* per consumer: offset of the message in processMessage (0: none)
  attempt,    \* per consumer: processWithRetry's loop variable
  trace,      \* per consumer: the calls the current processMessage made
  pending,    \* per consumer: the barrier call that made its last
              \* processMessage return without a commit ("none" otherwise)
  store,      \* Redis: message ids with an unexpired email:sent:<id> record
  dlq,        \* dead-letter topic: records written, per message id
  sentCount,  \* observation: successful SendEmailEvent calls, per message id
  markTrue,   \* observation: MarkAsProcessed calls that returned true during
              \* the lifetime of the current record, per message id
  reached,    \* observation: offsets whose message reached SKIP, success
              \* (marked processed) or dead-letter in some processMessage call
  cfgMaxRetries, \* c.config.MaxRetries
  slept,      \* per consumer: the backoff sleeps (seconds) of the current
              \* processMessage, in order
  cancelled,  \* the context passed to Start has been cancelled
  cancelAt,   \* observation, per consumer: where it was (pc, attempt) when
              \* the context was cancelled (<<"none", 0>>: not cancelled)
  readFailed, \* observation: offsets whose IsProcessed call returned an
              \* error and that are still owed a dispatch: no processMessage
              \* call has since sent, skipped or dead-lettered the message,
              \* and no consumer has since been told to fetch it again
  meta,       \* Redis: per message id, how many times the value (metadata)
              \* and the TTL of its record were written (0: no record)
  dlqError,   \* dead-letter topic: the error field of the last record
              \* written for each message id
  evt,        \* per consumer: processMessage's event (the parsed envelope)
  args,       \* observation, per consumer: the envelopes passed to
              \* SendEmailEvent by the current processMessage, in order
  lastErr,    \* per consumer: processWithRetry's lastErr
  ppc,        \* per caller of the producer: "idle", or "waiting" on the
              \* delivery channel inside PublishEmailEventSync
  lastCall,   \* observation, per caller: its last call (function, event,
              \* what the client did, returned error, message handed over)
  outq,       \* the client's queue of messages taken by Produce
  produced,   \* messages the client has taken so far (they are numbered)
  persisted,  \* observation: the messages the log has persisted
  deliveryChan, \* per caller: the report in its delivery channel
  events,     \* the reports in the client's Events() channel
  diag,       \* observation: the last diagnostic call (GetMetadata, Clean,
              \* /health, /stats) and what it returned
  sessions,   \* the session store: per session id, the session stored
              \* under session:<id> (NoSession: no such key)
  issued,     \* session ids Create has generated so far
  now,        \* the gateway's clock
  req,        \* observation: the last request that went through
              \* SessionAuthMiddleware and what became of it
  rawValue,   \* msg.Value of a message read from the topic, field by field
  parsed,     \* what json.Unmarshal(msg.Value, &event) gave for it (<<>>:
              \* not parsed yet)
  dlqMsg      \* the kafka.Message sendToDLQ handed to the dead-letter
              \* producer for it (<<>>: none)

vars == <<log, committed, owner, restarts, pc, pos, cur, attempt, trace, pending,
          store, dlq, sentCount, markTrue, reached, cfgMaxRetries, slept,
          cancelled, cancelAt, readFailed, meta, dlqError, evt, args, lastErr,
          ppc, lastCall, outq, produced, persisted,
          deliveryChan, events, diag, sessions, issued, now, req,
          rawValue, parsed, dlqMsg>>

prodVars == <<ppc, lastCall, outq, produced, persisted, deliveryChan, events>>

procVars == <<pc, pos, cur, attempt, trace, pending, slept, evt, args, lastErr>>

\* processMessage's locals other than the loop variable
locals == <<evt, args, lastErr>>

\* the gateway: session store, clock and last request
gwVars == <<sessions, issued, now, req>>

\* one message's bytes on their way to the dead-letter topic
codecVars == <<rawValue, parsed, dlqMsg>>

\* the email service's diagnostics, the gateway and the bytes
svcVars == <<diag, gwVars, codecVars>>

\* the configuration and the context: nothing in the consumer changes them
ctxVars == <<cfgMaxRetries, cancelled, cancelAt>>

\* ----------------------------------------------------------------- helpers
\* The observation counters count 0, 1, "two or more".
Inc(n) == IF n < 2 THEN n + 1 ELSE n

Has(s, e) == \E i \in 1..Len(s) : s[i] = e

\* json.Unmarshal(msg.Value, &event): bytes that are not an envelope give an
\* error; an envelope gives the event (message_id possibly empty).
Unmarshal(p) ==
  IF p.kind = "garbage"
    THEN [err |-> TRUE, MessageID |-> ""]
    ELSE [err |-> FALSE, MessageID |-> p.message_id]

\* var event EmailEvent: the zero value
NoEvent == [err |-> FALSE, MessageID |-> ""]

event(c) == evt[c]

\* Errors are sequences of message parts; NoErr is nil.
NoErr == <<>>

\* The error SendEmailEvent returns on its a-th call of a run: each
\* failure has its own error.
SendError(a) == <<"send failed", a>>

\* fmt.Errorf("max retries exceeded: %w", lastErr), and its Error() string
Wrap(e) == <<"max retries exceeded: ">> \o e

\* A loop that remembers the first error instead of the last.
KeepFirstErr(old, new) == IF old = NoErr THEN new ELSE old

\* processWithRetry: lastErr = err
NextLastErr(old, new) == new

\* A sender that is handed an envelope stripped of its message_id on the
\* attempts after the first.
StrippedArg(e, a) == IF a > 1 THEN [e EXCEPT !.MessageID = ""] ELSE e

\* processWithRetry: c.sender.SendEmailEvent(event), event passed by value
SendArg(e, a) == e

\* A loop that sleeps after every failed attempt.
SleepsAfterEvery(a, n) == TRUE

\* processWithRetry: if attempt < maxRetries { time.Sleep(backoff) }
SleepsAfter(a, n) == a < n

\* A SET without NX: value and TTL are written again.
WriteAlways(m, id) == [m EXCEPT ![id] = Inc(@)]

\* The value part of SET key value NX EX ttl: value and TTL are written iff
\* the record is absent.
WriteNX(m, id) == IF m[id] = 0 THEN [m EXCEPT ![id] = 1] ELSE m

\* json.Marshal(event) of an EmailEvent gives the envelope bytes; of an
\* unsupported value, an error.
Marshal(e) ==
  IF e.kind = "unsupported"
    THEN [err |-> TRUE, data |-> [kind |-> "garbage", message_id |-> ""]]
    ELSE [err |-> FALSE, data |-> [kind |-> "envelope", message_id |-> e.MessageID]]

\* ------------------------------------------------- the envelope's bytes
\* main.go: the topics and the group the consumer is configured with
Topic == "email-events"
DLQTopic == "email-events-dlq"
ConsumerGroup == "email-service-group"

\* A JSON number that is an integer: n when big is FALSE, 2^53 + n when it
\* is TRUE.
JSONNumbers == [big : {FALSE}, n : {0, 42}] \cup [big : {TRUE}, n : 0..3]

\* The value under data.code on the wire: a string or a number.
DataValues ==
  {[type |-> "string", s |-> "123456", num |-> [big |-> FALSE, n |-> 0]]}
    \cup {[type |-> "number", s |-> "", num |-> x] : x \in JSONNumbers}

\* An RFC 3339 timestamp as written: seconds, the digits of the fraction,
\* the zone ("Z" or a numeric offset in hours).
Zones == {"Z", "+00:00", "+01:00"}

TimeTexts == [sec : {0}, frac : {<<>>, <<5>>, <<5, 0>>}, zone : Zones]

\* msg.Value: an envelope with its five fields, or bytes that are no JSON.
WireValues ==
  [kind : {"envelope"}, message_id : MessageIDs \cup {""},
   event_type : {"verification_code", "welcome"}, timestamp : TimeTexts,
   recipient : {"a@x"}, data : DataValues]
    \cup {[kind |-> "garbage", message_id |-> "", event_type |-> "",
           timestamp |-> [sec |-> 0, frac |-> <<>>, zone |-> "Z"],
           recipient |-> "", data |-> [type |-> "string", s |-> "",
                                       num |-> [big |-> FALSE, n |-> 0]]]}

\* no message is being followed
NoValue ==
  [kind |-> "none", message_id |-> "", event_type |-> "",
   timestamp |-> [sec |-> 0, frac |-> <<>>, zone |-> "Z"],
   recipient |-> "", data |-> [type |-> "string", s |-> "",
                               num |-> [big |-> FALSE, n |-> 0]]]

\* encoding/json decoding a number into interface{}: a float64. Integers
\* up to 2^53 are exact; between 2^53 and 2^54 the float64s are the even
\* integers, and an odd one is rounded to the neighbour whose mantissa is
\* even (round half to even).
Float64(x) ==
  IF ~x.big \/ x.n % 2 = 0 THEN x
  ELSE IF (x.n - 1) % 4 = 0 THEN [x EXCEPT !.n = x.n - 1]
  ELSE [x EXCEPT !.n = x.n + 1]

\* json.Unmarshal into Data map[string]interface{}: strings stay strings,
\* numbers become float64.
DecodeData(d) == IF d.type = "number" THEN [d EXCEPT !.num = Float64(d.num)] ELSE d

\* json.Marshal of Data: a float64 that is an integer below 1e21 is
\* written with all its digits.
EncodeData(d) == d

RECURSIVE TrimZeros(_)
\* the fraction without its trailing zeros
TrimZeros(f) ==
  IF f # <<>> /\ f[Len(f)] = 0 THEN TrimZeros(SubSeq(f, 1, Len(f) - 1)) ELSE f

ZoneOffset(z) == IF z = "+01:00" THEN 1 ELSE 0

\* time.Time.UnmarshalJSON: wall-clock seconds, nanoseconds, zone offset
ParseTime(ts) == [wall |-> ts.sec, nanos |-> TrimZeros(ts.frac), offset |-> ZoneOffset(ts.zone)]

\* time.Time.MarshalJSON (RFC3339Nano): the fraction without trailing
\* zeros, "Z" for a zero offset
FormatTime(t) ==
  [sec |-> t.wall, frac |-> t.nanos, zone |-> IF t.offset = 0 THEN "Z" ELSE "+01:00"]

\* the instant a time.Time denotes
Instant(t) == <<t.wall - 3600 * t.offset, t.nanos>>

\* json.Unmarshal(msg.Value, &event) into an EmailEvent
UnmarshalEvent(v) ==
  IF v.kind # "envelope"
    THEN [err |-> TRUE, MessageID |-> "", EventType |-> "", Timestamp |-> ParseTime(v.timestamp),
          Recipient |-> "", Data |-> v.data]
    ELSE [err |-> FALSE, MessageID |-> v.message_id, EventType |-> v.event_type,
          Timestamp |-> ParseTime(v.timestamp), Recipient |-> v.recipient,
          Data |-> DecodeData(v.data)]

\* json.Marshal of an EmailEvent: the envelope again
MarshalEvent(e) ==
  [kind |-> "envelope", message_id |-> e.MessageID, event_type |-> e.EventType,
   timestamp |-> FormatTime(e.Timestamp), recipient |-> e.Recipient,
   data |-> EncodeData(e.Data)]

\* sendToDLQ: dlqEvent, marshalled
DLQEvent(e, processingError, failedAt) ==
  [original_event |-> MarshalEvent(e), error |-> processingError,
   failed_at |-> failedAt, consumer_group |-> ConsumerGroup]

\* An EXISTS that does not look at the message id.
IsProcessedAnyRecord(id) == store # {}

\* IdempotencyStore.buildKey / IsProcessed: EXISTS email:sent:<id> > 0
buildKey(id) == <<"email:sent:", id>>

Keys(s) == {buildKey(id) : id \in s}

IsProcessed(id) == buildKey(id) \in Keys(store)

\* redis.SetNX returned an error: the command did not run, the keys are as
\* they were.
SetFails(s, id) == s

\* A plain SET: writes the record whether or not one is there.
SetAlways(s, id) == [success |-> TRUE, store |-> s \cup {id}]

\* Redis SET key value NX EX ttl: creates the record iff it is absent. (A call
\* that returns an error is taken not to have reached Redis.)
SetNX(s, id) == [success |-> buildKey(id) \notin Keys(s), store |-> s \cup {id}]

\* processWithRetry: maxRetries := c.config.MaxRetries; if <= 0 then 3
\* A loop bound without the default.
maxRetriesNoDefault == cfgMaxRetries

maxRetries == IF cfgMaxRetries <= 0 THEN DefaultMaxRetries ELSE cfgMaxRetries

\* A backoff that shrinks with the attempt number.
backoffShrinking(a) == (MaxConfigRetries + 2) - a

\* processWithRetry: backoff := time.Duration(attempt) * time.Second, in seconds
backoff(a) == a * 1

\* -------------------------------------------------------------------- Init
\* The state after NewConsumer, with MaxRetries taken from configs.
InitFrom(configs, values) ==
  /\ cfgMaxRetries \in configs
  /\ rawValue \in values
  /\ parsed = <<>>
  /\ dlqMsg = <<>>
  /\ slept = [c \in Consumers |-> <<>>]
  /\ cancelled = FALSE
  /\ cancelAt = [c \in Consumers |-> <<"none", 0>>]
  /\ diag = NoDiag
  /\ sessions = [sid \in SessionIDs |-> NoSession]
  /\ issued = {}
  /\ now = 0
  /\ req = NoRequest
  /\ readFailed = {}
  /\ meta = [id \in MessageIDs |-> 0]
  /\ dlqError = [id \in MessageIDs |-> NoErr]
  /\ evt = [c \in Consumers |-> NoEvent]
  /\ args = [c \in Consumers |-> <<>>]
  /\ lastErr = [c \in Consumers |-> NoErr]
  /\ ppc = [p \in Callers |-> "idle"]
  /\ lastCall = [p \in Callers |-> NoCall]
  /\ outq = <<>>
  /\ produced = 0
  /\ persisted = {}
  /\ deliveryChan = [p \in Callers |-> NoReport]
  /\ events = <<>>
  /\ log = <<>>
  /\ committed = 0
  /\ owner = "c1"
  /\ restarts = 0
  /\ pc = [c \in Consumers |-> "poll"]
  /\ pos = [c \in Consumers |-> 1]
  /\ cur = [c \in Consumers |-> 0]
  /\ attempt = [c \in Consumers |-> 0]
  /\ trace = [c \in Consumers |-> <<>>]
  /\ pending = [c \in Consumers |-> "none"]
  /\ store = {}
  /\ dlq = [id \in MessageIDs |-> 0]
  /\ sentCount = [id \in MessageIDs |-> 0]
  /\ markTrue = [id \in MessageIDs |-> 0]
  /\ reached = {}

InitWith(configs) == InitFrom(configs, {NoValue})

\* main.go: MaxRetries: 3
Init == InitWith({MaxRetries})

\* Any configuration of MaxRetries, the non-positive ones included.
RetryConfigs == (-1)..MaxConfigRetries

RetryInit == InitWith(RetryConfigs)

\* ------------------------------------------------------------- environment
\* Something is appended to the topic.
Publish(maxLen) ==
  /\ Len(log) < maxLen
  /\ \E p \in Payloads : log' = Append(log, p)
  /\ UNCHANGED <<committed, owner, restarts, procVars, store, dlq, sentCount,
                 markTrue, reached, ctxVars, svcVars, readFailed, meta, dlqError, prodVars>>

\* The TTL of a record runs out.
Expire ==
  /\ \E id \in store :
       /\ store' = store \ {id}
       /\ markTrue' = [markTrue EXCEPT ![id] = 0]
       /\ meta' = [meta EXCEPT ![id] = 0]
  /\ UNCHANGED <<log, committed, owner, restarts, procVars, dlq, sentCount, reached,
                 ctxVars, svcVars, readFailed, dlqError, prodVars>>

\* The consumer process dies at any point and is started again: a new
\* Consumer subscribes and resumes from the committed offset.
Crash(c) ==
  /\ restarts < MaxCrashes
  /\ owner = c \/ pc[c] # "poll"     \* an idle member without the partition has no state to lose
  /\ restarts' = restarts + 1
  /\ readFailed' = readFailed \cap 1..committed    \* the rest is fetched again
  /\ pc' = [pc EXCEPT ![c] = "poll"]
  /\ pos' = [pos EXCEPT ![c] = committed + 1]
  /\ cur' = [cur EXCEPT ![c] = 0]
  /\ attempt' = [attempt EXCEPT ![c] = 0]
  /\ trace' = [trace EXCEPT ![c] = <<>>]
  /\ pending' = [pending EXCEPT ![c] = "none"]
  /\ slept' = [slept EXCEPT ![c] = <<>>]
  /\ evt' = [evt EXCEPT ![c] = NoEvent]
  /\ args' = [args EXCEPT ![c] = <<>>]
  /\ lastErr' = [lastErr EXCEPT ![c] = NoErr]
  /\ UNCHANGED <<log, committed, owner, store, dlq, sentCount, markTrue, reached,
                 ctxVars, svcVars, meta, dlqError, prodVars>>

\* The group coordinator moves the partition to the other member, which
\* resumes from the committed offset; the previous owner finishes the
\* processMessage call it is in.
Rebalance ==
  /\ restarts < MaxRebalances
  /\ restarts' = restarts + 1
  /\ readFailed' = readFailed \cap 1..committed    \* the rest is fetched again
  /\ \E c \in Consumers \ {owner} :
       /\ owner' = c
       /\ pos' = [pos EXCEPT ![c] = committed + 1]
  /\ UNCHANGED <<log, committed, pc, cur, attempt, trace, pending, slept, store, dlq,
                 sentCount, markTrue, reached, ctxVars, svcVars, meta, dlqError, locals, prodVars>>

\* main.go: cancel() on the shutdown signal. stop: the consumers are stopped
\* on the spot instead of being left to notice the cancellation.
CancelWith(stop) ==
  /\ ~cancelled
  /\ cancelled' = TRUE
  /\ cancelAt' = [c \in Consumers |-> <<pc[c], attempt[c]>>]
  /\ pc' = IF stop THEN [c \in Consumers |-> "stopped"] ELSE pc
  /\ UNCHANGED <<log, committed, owner, restarts, pos, cur, attempt, trace, pending,
                 slept, store, dlq, sentCount, markTrue, reached, cfgMaxRetries, readFailed, meta, dlqError, locals,
                 prodVars, svcVars>>

CancelPreempts == CancelWith(TRUE)

Cancel == CancelWith(FALSE)

\* ------------------------------------------------------------ Consumer.Start
\* The select at the top of the loop: ctx.Done() ends Start, otherwise the
\* default branch polls. pc = "poll" is a consumer inside ReadMessage.
\* A loop that never takes the ctx.Done() case.
SelectPollsAgain(c) == pc' = [pc EXCEPT ![c] = "poll"]

Select(c) == pc' = [pc EXCEPT ![c] = IF cancelled THEN "stopped" ELSE "poll"]

\* ReadMessage returns the message at offset k of the partition.
ReadMessageAt(c, k) ==
  /\ pc[c] = "poll"
  /\ owner = c
  /\ k <= Len(log)
  /\ cur' = [cur EXCEPT ![c] = k]
  /\ pos' = [pos EXCEPT ![c] = k + 1]
  /\ pc' = [pc EXCEPT ![c] = "parse"]
  /\ pending' = [pending EXCEPT ![c] = "none"]
  /\ UNCHANGED <<log, committed, owner, restarts, attempt, trace, slept, store, dlq,
                 sentCount, markTrue, reached, ctxVars, svcVars, readFailed, meta, dlqError, locals, prodVars>>

\* A client that fetches from the committed offset on every poll.
ReadMessageFromCommitted(c) == ReadMessageAt(c, committed + 1)

\* The client fetches from its own position, which only moves forward.
ReadMessage(c) == ReadMessageAt(c, pos[c])

\* A read error that makes Start return.
ReadErrorEndsLoop(c) ==
  /\ pc[c] = "poll"
  /\ pc' = [pc EXCEPT ![c] = "stopped"]
  /\ UNCHANGED <<log, committed, owner, restarts, pos, cur, attempt, trace, pending,
                 slept, store, dlq, sentCount, markTrue, reached, ctxVars, svcVars, readFailed, meta, dlqError, locals, prodVars>>

\* ReadMessage returns an error (timeout or other): continue.
ReadError(c) ==
  /\ pc[c] = "poll"
  /\ Select(c)
  /\ UNCHANGED <<log, committed, owner, restarts, pos, cur, attempt, trace, pending,
                 slept, store, dlq, sentCount, markTrue, reached, ctxVars, svcVars, readFailed, meta, dlqError, locals, prodVars>>

\* processMessage has returned: back to the top of the for/select loop.
LoopAgain(c) ==
  /\ pc[c] = "done"
  /\ Select(c)
  /\ trace' = [trace EXCEPT ![c] = <<>>]
  /\ slept' = [slept EXCEPT ![c] = <<>>]
  /\ evt' = [evt EXCEPT ![c] = NoEvent]
  /\ args' = [args EXCEPT ![c] = <<>>]
  /\ lastErr' = [lastErr EXCEPT ![c] = NoErr]
  /\ UNCHANGED <<log, committed, owner, restarts, pos, cur, attempt, pending, store, dlq,
                 sentCount, markTrue, reached, ctxVars, svcVars, readFailed, meta, dlqError, prodVars>>

\* ------------------------------------------------------------ processMessage
\* The context processMessage hands to IsProcessed and MarkAsProcessed, and
\* they to the Redis client: once it is cancelled the client returns its
\* error without running the command.
ctxDone == cancelled

Go(c, label) == pc' = [pc EXCEPT ![c] = label]

Log(c, e) == trace' = [trace EXCEPT ![c] = Append(trace[c], e)]

Reach(c) == reached' = reached \cup {cur[c]}

\* the message held is no longer owed a dispatch
Discharge(c) == readFailed' = readFailed \ {cur[c]}

\* return without a commit because the barrier call `call` failed
ReturnOn(c, label, call) ==
  /\ Go(c, label)
  /\ pending' = [pending EXCEPT ![c] = IF label = "done" THEN call ELSE "none"]

\* json.Unmarshal and the message_id validation; a bad message is skipped.
\* onBad: where processMessage continues with a message that fails either;
\* validates: whether the message_id is looked at.
ParseTo(c, onBad, validates) ==
  /\ pc[c] = "parse"
  /\ evt' = [evt EXCEPT ![c] = Unmarshal(log[cur[c]])]
  /\ IF evt'[c].err
       THEN Log(c, "parse_error") /\ Go(c, onBad) /\ Reach(c)
       ELSE IF validates /\ evt'[c].MessageID = ""
         THEN Log(c, "missing_id") /\ Go(c, onBad) /\ Reach(c)
         ELSE Go(c, "dedup") /\ UNCHANGED <<trace, reached>>
  /\ UNCHANGED <<log, committed, owner, restarts, pos, cur, attempt, pending, slept,
                 store, dlq, sentCount, markTrue, ctxVars, svcVars, readFailed, meta, dlqError, args, lastErr, prodVars>>

ParseAcceptsEmptyID(c) == ParseTo(c, "commit", FALSE)

ParseReturnsOnBadMessage(c) == ParseTo(c, "done", TRUE)

Parse(c) == ParseTo(c, "commit", TRUE)

\* idempotencyStore.IsProcessed and the branches on its result.
\* onErr, onHit, onMiss: where processMessage continues on an error, on
\* "already processed" and on "not processed".
DedupCheckTo(c, onErr, onHit, onMiss) ==
  /\ pc[c] = "dedup"
  /\ \/ /\ Log(c, "dedup_err")          \* Redis unreachable, or ctx cancelled
        /\ ReturnOn(c, onErr, "dedup")
        /\ readFailed' = readFailed \cup {cur[c]}
        /\ UNCHANGED <<attempt, reached>>
     \/ /\ ~ctxDone
        /\ IsProcessed(event(c).MessageID)
        /\ Log(c, "dedup_hit")
        /\ Go(c, onHit)
        /\ Reach(c)
        /\ Discharge(c)
        /\ attempt' = [attempt EXCEPT ![c] = IF onHit = "dispatch" THEN 1 ELSE 0]
        /\ UNCHANGED pending
     \/ /\ ~ctxDone
        /\ ~IsProcessed(event(c).MessageID)
        /\ Log(c, "dedup_miss")
        /\ Go(c, onMiss)
        /\ attempt' = [attempt EXCEPT ![c] = 1]
        /\ UNCHANGED <<reached, pending, readFailed>>
  /\ UNCHANGED <<log, committed, owner, restarts, pos, cur, slept, store, dlq, sentCount,
                 markTrue, ctxVars, svcVars, meta, dlqError, locals, prodVars>>

DedupCheckMarksFirst(c) == DedupCheckTo(c, "done", "commit", "mark")

DedupCheckIgnoresHit(c) == DedupCheckTo(c, "done", "dispatch", "dispatch")

DedupCheck(c) == DedupCheckTo(c, "done", "commit", "dispatch")

\* One iteration of processWithRetry's loop: SendEmailEvent, then either
\* return nil, or sleep and go round again, or return the wrapped last error.
\* last: the number of the attempt after which the loop gives up.
SendAttemptTo(c, onSuccess, last) ==
  /\ pc[c] = "dispatch"
  /\ args' = [args EXCEPT ![c] = Append(@, SendArg(event(c), attempt[c]))]
  /\ \/ /\ Log(c, "send_ok")
        /\ sentCount' = [sentCount EXCEPT ![event(c).MessageID] = Inc(@)]
        /\ Go(c, onSuccess)
        /\ attempt' = [attempt EXCEPT ![c] = 0]
        /\ Discharge(c)
        /\ UNCHANGED <<slept, lastErr>>
     \/ /\ Log(c, "send_fail")
        /\ lastErr' = [lastErr EXCEPT ![c] = NextLastErr(@, SendError(attempt[c]))]
        /\ slept' = IF SleepsAfter(attempt[c], maxRetries)
                      THEN [slept EXCEPT ![c] = Append(@, backoff(attempt[c]))]
                      ELSE slept
        /\ IF attempt[c] < last
             THEN attempt' = [attempt EXCEPT ![c] = attempt[c] + 1] /\ UNCHANGED pc
             ELSE Go(c, "dlq") /\ attempt' = [attempt EXCEPT ![c] = 0]
        /\ UNCHANGED <<sentCount, readFailed>>
  /\ UNCHANGED <<log, committed, owner, restarts, pos, cur, pending, store, dlq, markTrue,
                 reached, ctxVars, svcVars, meta, dlqError, evt, prodVars>>

SendAttemptSkipsMark(c) == SendAttemptTo(c, "commit", maxRetries)

SendAttemptOneMore(c) == SendAttemptTo(c, "mark", maxRetries + 1)

SendAttemptGivesUpEarly(c) == SendAttemptTo(c, "mark", maxRetries - 1)

SendAttempt(c) == SendAttemptTo(c, "mark", maxRetries)

\* sendToDLQ: json.Marshal and Produce to the dead-letter topic; a failure
\* of either is only logged. onFail: where processMessage continues then.
sendToDLQTo(c, onFail) ==
  /\ pc[c] = "dlq"
  /\ \/ /\ Log(c, "dlq_ok")
        /\ dlq' = [dlq EXCEPT ![event(c).MessageID] = Inc(@)]
        /\ dlqError' = [dlqError EXCEPT ![event(c).MessageID] = Wrap(lastErr[c])]
        /\ Go(c, "commit")
     \/ /\ Log(c, "dlq_fail")
        /\ UNCHANGED <<dlq, dlqError>>
        /\ Go(c, onFail)
  /\ Reach(c)
  /\ Discharge(c)
  /\ UNCHANGED <<log, committed, owner, restarts, pos, cur, attempt, pending, slept,
                 store, sentCount, markTrue, ctxVars, svcVars, meta, locals, prodVars>>

sendToDLQReturnsOnFailure(c) == sendToDLQTo(c, "done")

sendToDLQThenMarks(c) == sendToDLQTo(c, "mark")

sendToDLQ(c) == sendToDLQTo(c, "commit")

\* idempotencyStore.MarkAsProcessed and the branches on its result.
\* onErr: where processMessage continues on an error.
MarkTo(c, onErr) ==
  /\ pc[c] = "mark"
  /\ \/ /\ Log(c, "mark_err")           \* Redis unreachable, or ctx cancelled
        /\ ReturnOn(c, onErr, "mark")
        /\ store' = SetFails(store, event(c).MessageID)
        /\ UNCHANGED <<meta, markTrue, reached>>
     \/ LET r == SetNX(store, event(c).MessageID) IN
        /\ ~ctxDone
        /\ store' = r.store
        /\ meta' = WriteNX(meta, event(c).MessageID)
        /\ Log(c, IF r.success THEN "mark_true" ELSE "mark_false")
        /\ markTrue' = IF r.success
                         THEN [markTrue EXCEPT ![event(c).MessageID] = Inc(@)]
                         ELSE markTrue
        /\ Go(c, "commit")
        /\ Reach(c)
        /\ UNCHANGED pending
  /\ UNCHANGED <<log, committed, owner, restarts, pos, cur, attempt, slept, dlq,
                 sentCount, ctxVars, svcVars, readFailed, dlqError, locals, prodVars>>

MarkAsProcessedCommitsOnError(c) == MarkTo(c, "commit")

\* A failed SET that takes the record away.
SetNXReplyLostDrops(s, id) == s \ {id}

\* redis.SetNX whose command reached the server and whose reply did not
\* come back (read timeout, connection reset, context cancelled while the
\* reply was awaited): the server has run SET NX, the client has an error.
SetNXReplyLost(s, id) == SetNX(s, id).store

\* MarkAsProcessed returning the error of a SetNX whose reply was lost:
\* processMessage returns without committing.
MarkAsProcessedReplyLost(c) ==
  /\ pc[c] = "mark"
  /\ store' = SetNXReplyLost(store, event(c).MessageID)
  /\ meta' = WriteNX(meta, event(c).MessageID)
  /\ Log(c, "mark_err")
  /\ ReturnOn(c, "done", "mark")
  /\ UNCHANGED <<markTrue, reached>>
  /\ UNCHANGED <<log, committed, owner, restarts, pos, cur, attempt, slept, dlq,
                 sentCount, ctxVars, svcVars, readFailed, dlqError, locals, prodVars>>

MarkAsProcessed(c) == MarkTo(c, "done")

\* commitMessage: CommitMessage(msg); an error is only logged. A member that
\* does not hold the partition cannot commit.
commitMessage(c) ==
  /\ pc[c] = "commit"
  /\ \/ /\ owner = c
        /\ committed' = cur[c]
        /\ Log(c, "commit")
     \/ /\ Log(c, "commit_failed")
        /\ UNCHANGED committed
  /\ Go(c, "done")
  /\ UNCHANGED <<log, owner, restarts, pos, cur, attempt, pending, slept, store, dlq,
                 sentCount, markTrue, reached, ctxVars, svcVars, readFailed, meta, dlqError, locals, prodVars>>

\* ----------------------------------------------------------- kafka.Producer
\* json.Marshal(event), the kafka.Message and p.producer.Produce(msg, ch) of
\* PublishEmailEvent (ch = "events": no delivery channel, the report goes to
\* Events()) and of PublishEmailEventSync (ch = the caller's own channel).
\* The client either rejects the message (its queue is full, the topic is
\* invalid) or takes it into its queue. rejectErr: what the function
\* returns when the client rejects.
ProduceCall(p, fn, ch, rejectErr) ==
  /\ ppc[p] = "idle"
  /\ \E e \in Events :
       LET m == Marshal(e) IN
       IF m.err
         THEN /\ lastCall' = [lastCall EXCEPT ![p] = [fn |-> fn, event |-> e, client |-> "not_called",
                                              err |-> "marshal", msg |-> 0]]
              /\ UNCHANGED <<ppc, outq, produced>>
         ELSE \/ /\ lastCall' = [lastCall EXCEPT ![p] = [fn |-> fn, event |-> e, client |-> "rejected",
                                                 err |-> rejectErr, msg |-> 0]]
                 /\ UNCHANGED <<ppc, outq, produced>>
              \/ /\ produced < MaxPublishes
                 /\ produced' = produced + 1
                 /\ outq' = Append(outq, [msg |-> produced + 1, value |-> m.data, chan |-> ch])
                 /\ lastCall' = [lastCall EXCEPT ![p] = [fn |-> fn, event |-> e, client |-> "accepted",
                                                 err |-> IF fn = "sync" THEN "pending" ELSE "nil",
                                                 msg |-> produced + 1]]
                 /\ ppc' = [ppc EXCEPT ![p] = IF fn = "sync" THEN "waiting" ELSE "idle"]
  /\ UNCHANGED <<log, committed, owner, restarts, procVars, store, dlq, sentCount,
                 markTrue, reached, ctxVars, svcVars, readFailed, meta, dlqError, persisted, deliveryChan, events>>

PublishEmailEventSwallowsReject(p) == ProduceCall(p, "async", "events", "nil")

PublishEmailEvent(p) == ProduceCall(p, "async", "events", "produce")

\* PublishEmailEventSync up to the receive on its delivery channel.
PublishEmailEventSync(p) == ProduceCall(p, "sync", p, "produce")

\* The client sends the oldest queued message: the log persists it or the
\* delivery fails; the report goes to the message's delivery channel, or to
\* Events() when it has none.
Deliver ==
  /\ outq # <<>>
  /\ LET h == Head(outq) IN
     \E ok \in BOOLEAN :
       /\ log' = IF ok THEN Append(log, h.value) ELSE log
       /\ persisted' = IF ok THEN persisted \cup {h.msg} ELSE persisted
       /\ IF h.chan \in Callers
            THEN /\ deliveryChan' = [deliveryChan EXCEPT ![h.chan] =
                                       [msg |-> h.msg, failed |-> ~ok]]
                 /\ UNCHANGED events
            ELSE /\ events' = Append(events, [msg |-> h.msg, failed |-> ~ok])
                 /\ UNCHANGED deliveryChan
  /\ outq' = Tail(outq)
  /\ UNCHANGED <<committed, owner, restarts, procVars, store, dlq, sentCount,
                 markTrue, reached, ctxVars, svcVars, readFailed, meta, dlqError, ppc, lastCall, produced>>

\* PublishEmailEventSync from e := <-deliveryChan on: the report read from
\* channel ch decides the return value.
AwaitDeliveryOn(p, ch) ==
  /\ ppc[p] = "waiting"
  /\ deliveryChan[ch] # NoReport
  /\ lastCall' = [lastCall EXCEPT ![p].err = IF deliveryChan[ch].failed THEN "delivery" ELSE "nil"]
  /\ deliveryChan' = [deliveryChan EXCEPT ![ch] = NoReport]
  /\ ppc' = [ppc EXCEPT ![p] = "idle"]
  /\ UNCHANGED <<log, committed, owner, restarts, procVars, store, dlq, sentCount,
                 markTrue, reached, ctxVars, svcVars, readFailed, meta, dlqError, outq, produced, persisted, events>>

AwaitDeliveryAnyChannel(p) == \E ch \in Callers : AwaitDeliveryOn(p, ch)

AwaitDelivery(p) == AwaitDeliveryOn(p, p)

\* handleDeliveryReports: takes a report from Events() and logs it.
handleDeliveryReports ==
  /\ events # <<>>
  /\ events' = Tail(events)
  /\ UNCHANGED <<log, committed, owner, restarts, procVars, store, dlq, sentCount,
                 markTrue, reached, ctxVars, svcVars, readFailed, meta, dlqError, ppc, lastCall, outq, produced, persisted,
                 deliveryChan>>

\* ------------------------------------------------------------- diagnostics
\* What Clean's SCAN loop does to the store when it leaves the set kept: it
\* reads the keys under the prefix and counts them.
CleanScan(kept) ==
  /\ store' = kept
  /\ meta' = [id \in MessageIDs |-> IF id \in kept THEN meta[id] ELSE 0]
  /\ markTrue' = [id \in MessageIDs |-> IF id \in kept THEN markTrue[id] ELSE 0]

\* A scan that removes what it finds.
ScanDeletes == CleanScan({})

\* redis.Scan: every key stays.
Scan == CleanScan(store)

\* IdempotencyStore.Clean called by op, which reports errStatus and
\* errCount when the scan fails, okStatus and the count when it completes.
CleanCalledBy(op, errStatus, errCount, okStatus) ==
  /\ \/ /\ diag' = [op |-> op, status |-> errStatus, count |-> errCount]
        /\ UNCHANGED <<store, meta, markTrue>>
     \/ /\ Scan
        /\ diag' = [op |-> op, status |-> okStatus, count |-> Cardinality(Keys(store))]
  /\ UNCHANGED <<log, committed, owner, restarts, procVars, dlq, sentCount, reached,
                 ctxVars, readFailed, dlqError, prodVars, gwVars, codecVars>>

\* IdempotencyStore.Clean: (count, nil), or (0, error) when SCAN fails.
Clean == CleanCalledBy("Clean", "error", 0, "nil")

\* GET /health: 503 when the ping fails, else 200; idempotency_records is
\* Clean's count, or -1 when Clean fails.
HealthCheck ==
  \E httpStatus \in {"200", "503"} : CleanCalledBy("health", httpStatus, -1, httpStatus)

\* GET /stats: 500 when Clean fails, else 200 with Clean's count.
Stats == CleanCalledBy("stats", "500", 0, "200")

\* IdempotencyStore.GetMetadata: redis.Get of the record.
GetMetadata(id) ==
  /\ \/ diag' = [op |-> "GetMetadata", status |-> "error", count |-> 0]
     \/ diag' = [op |-> "GetMetadata",
                 status |-> IF IsProcessed(id) THEN "found" ELSE "not_found",
                 count |-> meta[id]]
  /\ UNCHANGED <<log, committed, owner, restarts, procVars, store, dlq, sentCount,
                 markTrue, reached, ctxVars, readFailed, meta, dlqError, prodVars, gwVars,
                 codecVars>>

\* ----------------------------------------------------------------- gateway
\* Everything but the gateway's state.
restVars ==
  <<log, committed, owner, restarts, procVars, store, dlq, sentCount, markTrue,
    reached, ctxVars, readFailed, meta, dlqError, prodVars, diag, codecVars>>

\* http.Header.Add: the value is appended to the ones the request has.
HeaderAdd(h, v) == Append(h, v)

\* http.Header.Set: the value replaces the ones the request has.
HeaderSet(h, v) == <<v>>

\* http.Header.Get: the first value, "" when there is none.
HeaderGet(h) == IF h = <<>> THEN "" ELSE h[1]

\* A check that lets every session through.
NeverExpired(t, sess) == FALSE

\* time.Now().After(sess.ExpiresAt) in the middleware, time.Now() being t
Expired(t, sess) == t > sess.ExpiresAt

\* Time passes.
Tick ==
  /\ now < MaxClock
  /\ now' = now + 1
  /\ UNCHANGED <<restVars, sessions, issued, req>>

\* manager.Create: a fresh id, the session stored under it with its TTL.
Create ==
  /\ \E sid \in SessionIDs \ issued, u \in Users, maxAge \in MaxAges :
       /\ sessions' = [sessions EXCEPT ![sid] =
                         [UserID |-> u.UserID, Email |-> u.Email, ExpiresAt |-> now + maxAge]]
       /\ issued' = issued \cup {sid}
  /\ UNCHANGED <<restVars, now, req>>

\* manager.Delete (logout)
Delete ==
  /\ \E sid \in SessionIDs :
       /\ sessions[sid] # NoSession
       /\ sessions' = [sessions EXCEPT ![sid] = NoSession]
  /\ UNCHANGED <<restVars, issued, now, req>>

\* Redis drops a key whose TTL has run out.
SessionExpire ==
  /\ \E sid \in SessionIDs :
       /\ sessions[sid] # NoSession
       /\ now >= sessions[sid].ExpiresAt
       /\ sessions' = [sessions EXCEPT ![sid] = NoSession]
  /\ UNCHANGED <<restVars, issued, now, req>>

\* manager.Get at time t: the error, the session and the store afterwards.
Get(s, sid, t) ==
  IF sid \notin SessionIDs \/ s[sid] = NoSession
    THEN [err |-> "not_found", sess |-> NoSession, store |-> s]
    ELSE IF t > s[sid].ExpiresAt
           THEN [err |-> "expired", sess |-> NoSession,
                 store |-> [s EXCEPT ![sid] = NoSession]]
           ELSE [err |-> "nil", sess |-> s[sid], store |-> s]

\* What the store holds under a cookie's session id.
Stored(cookie) == IF cookie \in SessionIDs THEN sessions[cookie] ELSE NoSession

\* A request with any cookie and any client-supplied X-User-ID and
\* X-User-Email goes through the middleware. The clock may move between
\* the manager's time.Now() and the middleware's.
SessionAuthMiddleware ==
  /\ \E cookie \in Cookies \cup {NoCookie}, client \in ClientHeaders,
        t \in {now, now + 1} \cap 0..MaxClock :
       LET got == Get(sessions, cookie, now)
           rejected == [cookie |-> cookie, client |-> client, at |-> now,
                        stored |-> Stored(cookie), getErr |-> "none", status |-> 401,
                        handled |-> FALSE, xUserID |-> client.id, xEmail |-> client.email,
                        user_id |-> "", email |-> ""]
       IN
       IF cookie = NoCookie
         THEN /\ req' = rejected
              /\ UNCHANGED <<sessions, now>>
         ELSE IF got.err # "nil"
           THEN /\ req' = [rejected EXCEPT !.getErr = got.err]
                /\ sessions' = got.store
                /\ UNCHANGED now
           ELSE /\ now' = t
                /\ UNCHANGED sessions
                /\ IF Expired(t, got.sess)
                     THEN req' = [rejected EXCEPT !.getErr = "nil", !.at = t]
                     ELSE req' = [cookie |-> cookie, client |-> client, at |-> t,
                                  stored |-> Stored(cookie), getErr |-> "nil",
                                  status |-> 200, handled |-> TRUE,
                                  xUserID |-> HeaderSet(client.id, got.sess.UserID),
                                  xEmail |-> HeaderSet(client.email, got.sess.Email),
                                  user_id |-> got.sess.UserID, email |-> got.sess.Email]
  /\ UNCHANGED <<restVars, issued>>

\* ------------------------------------------------- the dead-letter record
\* processMessage: json.Unmarshal(msg.Value, &event) of the message followed.
ParseValue ==
  /\ rawValue # NoValue
  /\ parsed = <<>>
  /\ parsed' = <<UnmarshalEvent(rawValue)>>
  /\ UNCHANGED <<log, committed, owner, restarts, procVars, store, dlq, sentCount,
                 markTrue, reached, ctxVars, readFailed, meta, dlqError, prodVars,
                 diag, gwVars, rawValue, dlqMsg>>

\* sendToDLQ(event, err) after the retries of a parsed event with a
\* message_id are exhausted: the record is marshalled and handed to the
\* dead-letter producer, which takes it or returns an error.
ProduceDLQRecord ==
  /\ parsed # <<>>
  /\ ~parsed[1].err
  /\ parsed[1].MessageID # ""
  /\ dlqMsg = <<>>
  /\ \E a \in 1..MaxRetries, failedAt \in 0..MaxClock, produceErr \in BOOLEAN :
       dlqMsg' = <<[topic |-> DLQTopic, err |-> produceErr,
                    value |-> DLQEvent(parsed[1], Wrap(SendError(a)), failedAt)]>>
  /\ UNCHANGED <<log, committed, owner, restarts, procVars, store, dlq, sentCount,
                 markTrue, reached, ctxVars, readFailed, meta, dlqError, prodVars,
                 diag, gwVars, rawValue, parsed>>

\* -------------------------------------------------------------------- Next
\* One step of consumer c: the loop of Start and the calls of processMessage.
Step(c) ==
  \/ ReadMessage(c)
  \/ ReadError(c)
  \/ LoopAgain(c)
  \/ Parse(c)
  \/ DedupCheck(c)
  \/ SendAttempt(c)
  \/ sendToDLQ(c)
  \/ MarkAsProcessed(c)
  \/ commitMessage(c)

\* One consumer instance holding the partition, crashing and restarting.
Next ==
  \/ Publish(MaxLog)
  \/ Expire
  \/ Crash("c1")
  \/ Step("c1")

Spec == Init /\ [][Next]_vars

\* Two members of the consumer group and a partition that is reassigned
\* while its previous owner is still inside processMessage.
RaceNext ==
  \/ Publish(MaxRaceLog)
  \/ Expire
  \/ Rebalance
  \/ \E c \in Consumers : Step(c)

RaceSpec == Init /\ [][RaceNext]_vars

\* One consumer under every configuration of MaxRetries.
RetryNext ==
  \/ Publish(MaxLog)
  \/ Step("c1")

RetrySpec == RetryInit /\ [][RetryNext]_vars

\* One consumer whose context is cancelled at any point.
CancelNext ==
  \/ Publish(MaxLog)
  \/ Cancel
  \/ Step("c1")

CancelSpec == Init /\ [][CancelNext]_vars

\* The same, with the consumer's goroutine running as long as it can.
FairCancelSpec == CancelSpec /\ WF_vars(Step("c1"))

\* The producer: callers of PublishEmailEvent and PublishEmailEventSync, the
\* client's delivery and the delivery report handler.
ProducerNext ==
  \/ \E p \in Callers : PublishEmailEvent(p)
  \/ \E p \in Callers : PublishEmailEventSync(p)
  \/ \E p \in Callers : AwaitDelivery(p)
  \/ Deliver
  \/ handleDeliveryReports

ProducerSpec == Init /\ [][ProducerNext]_vars

\* One consumer and the barrier's records running out: no crash.
BarrierNext ==
  \/ Publish(MaxLog)
  \/ Expire
  \/ Step("c1")

BarrierSpec == Init /\ [][BarrierNext]_vars

\* Two members of the group and a store whose replies can be lost.
LostReplyNext ==
  \/ Publish(MaxRaceLog)
  \/ Rebalance
  \/ \E c \in Consumers : Step(c)
  \/ \E c \in Consumers : MarkAsProcessedReplyLost(c)

LostReplySpec == Init /\ [][LostReplyNext]_vars

\* One message of any content that ends in the dead-letter topic.
DLQRecordNext ==
  \/ ParseValue
  \/ ProduceDLQRecord

DLQRecordSpec == InitFrom({MaxRetries}, WireValues) /\ [][DLQRecordNext]_vars

\* The email service with its diagnostic endpoints.
DiagNext ==
  \/ Publish(MaxRaceLog)
  \/ Expire
  \/ Step("c1")
  \/ Clean
  \/ HealthCheck
  \/ Stats
  \/ \E id \in MessageIDs : GetMetadata(id)

DiagSpec == Init /\ [][DiagNext]_vars

\* The gateway: sessions are created, expire and are deleted while requests
\* go through the session middleware.
GatewayNext ==
  \/ Tick
  \/ Create
  \/ Delete
  \/ SessionExpire
  \/ SessionAuthMiddleware

GatewaySpec == Init /\ [][GatewayNext]_vars

TypeOK ==
  /\ rawValue \in WireValues \cup {NoValue}
  /\ Len(parsed) <= 1
  /\ Len(dlqMsg) <= 1
  /\ \A i \in 1..Len(dlqMsg) : dlqMsg[i].topic \in {Topic, DLQTopic}
  /\ now \in 0..MaxClock
  /\ issued \subseteq SessionIDs
  /\ \A sid \in SessionIDs : sessions[sid] # NoSession => sid \in issued
  /\ req.status \in {0, 200, 401}
  /\ diag.op \in {"none", "Clean", "health", "stats", "GetMetadata"}
  /\ readFailed \subseteq 1..Len(log)
  /\ \A id \in MessageIDs : meta[id] \in 0..2
  /\ log \in Seq(Payloads)
  /\ committed \in 0..Len(log)
  /\ owner \in Consumers
  /\ store \subseteq MessageIDs
  /\ cancelled \in BOOLEAN
  /\ \A c \in Consumers :
       /\ pc[c] \in {"poll", "parse", "dedup", "dispatch", "dlq", "mark", "commit", "done",
                     "stopped"}
       /\ pos[c] \in 1..(Len(log) + 1)
       /\ cur[c] \in 0..Len(log)
       /\ attempt[c] \in 0..maxRetries
       /\ pending[c] \in {"none", "dedup", "mark"}
       /\ Len(slept[c]) < maxRetries
  /\ produced \in 0..MaxPublishes
  /\ persisted \subseteq 1..produced
  /\ \A p \in Callers : ppc[p] \in {"idle", "waiting"}

\* ================================================================== claims
WellFormed(k) == ~Unmarshal(log[k]).err /\ Unmarshal(log[k]).MessageID # ""

IdOf(k) == Unmarshal(log[k]).MessageID

Committed(t) == Has(t, "commit") \/ Has(t, "commit_failed")

Sent(t) == Has(t, "send_ok") \/ Has(t, "send_fail")

Marked(t) == Has(t, "mark_true") \/ Has(t, "mark_false") \/ Has(t, "mark_err")

DeadLettered(t) == Has(t, "dlq_ok") \/ Has(t, "dlq_fail")

Count(t, e) == Cardinality({i \in 1..Len(t) : t[i] = e})

CommitCalls(t) == Count(t, "commit") + Count(t, "commit_failed")

\* C1 (Idempotence): over any sequence of deliveries and redeliveries of a
\* message, crashes between the send and the commit included, at most one
\* SendEmailEvent call for its message_id succeeds.
C1_Idempotence == \A id \in MessageIDs : sentCount[id] <= 1

\* C2 (Commit discipline): the committed offset of the partition never
\* passes a message that has not reached SKIP, success (marked processed) or
\* dead-letter; a message processMessage left uncommitted stays uncommitted
\* while the same consumer processes and commits later messages.
C2_CommitDiscipline == \A k \in 1..committed : k \in reached

\* C3: whenever IsProcessed or MarkAsProcessed returns an infrastructure
\* error for a message, processMessage returns without calling
\* CommitMessage for that message.
C3_BarrierErrorNoCommit ==
  \A c \in Consumers :
    (Has(trace[c], "dedup_err") \/ Has(trace[c], "mark_err")) =>
      /\ pc[c] = "done"
      /\ ~Committed(trace[c])
      /\ trace[c][Len(trace[c])] \in {"dedup_err", "mark_err"}

C3_Witness ==
  \E c \in Consumers :
    /\ pc[c] = "done"
    /\ Has(trace[c], "send_ok")
    /\ Has(trace[c], "mark_err")
    /\ committed < cur[c]

\* C4 (Scenario D): when the barrier is unreachable during the dedup check
\* of a message, SendEmailEvent is not called for it, no commit is issued
\* for it, and it is the message the consumer loop is given on its next poll
\* (before any later offset of the partition).
C4_ScenarioD ==
  /\ [](\A c \in Consumers :
          Has(trace[c], "dedup_err") => ~Sent(trace[c]) /\ ~Committed(trace[c]))
  /\ [][\A c \in Consumers :
          (pc[c] = "poll" /\ pending[c] = "dedup" /\ pc'[c] = "parse")
            => cur'[c] = cur[c]]_vars

\* C5 (No work is silently dropped): every well-formed envelope appended to
\* the topic is eventually sent successfully or written to the dead-letter
\* topic. Stated on the states from which the message can never be
\* delivered again (its offset is committed and no consumer holds it or has
\* it ahead of its fetch position): there it has been sent or dead-lettered.
\* A message that went through sendToDLQ is counted as dead-lettered even
\* when the write failed, as section 4.5 of the spec accepts that loss.
Settled(k) ==
  /\ k <= committed
  /\ \A c \in Consumers : pc[c] = "poll" /\ (owner = c => pos[c] > k)

C5_NoWorkDropped ==
  \A k \in 1..Len(log) :
    (WellFormed(k) /\ Settled(k)) =>
      \/ sentCount[IdOf(k)] >= 1
      \/ dlq[IdOf(k)] >= 1
      \/ k \in reached

\* C6: when two consumer instances process the same message concurrently
\* (both passed the dedup check before either marked it), at most one of
\* them performs a successful SendEmailEvent for it.
C6_RaceOneEmail ==
  \A c1, c2 \in Consumers :
    (c1 # c2 /\ pc[c1] # "poll" /\ pc[c2] # "poll" /\ cur[c1] = cur[c2])
      => ~(Has(trace[c1], "send_ok") /\ Has(trace[c2], "send_ok"))

C8_MarkOnlyAfterSend ==
  /\ \A id \in store : sentCount[id] >= 1
  /\ \A c \in Consumers :
       /\ pc[c] = "mark" => trace[c][Len(trace[c])] = "send_ok"
       /\ \A i \in 1..Len(trace[c]) :
            trace[c][i] \in {"mark_true", "mark_false", "mark_err"}
              => (i > 1 /\ trace[c][i-1] = "send_ok")

C8_Witness ==
  \E c \in Consumers :
    /\ Has(trace[c], "mark_true")
    /\ IdOf(cur[c]) \in store
    /\ sentCount[IdOf(cur[c])] = 1

\* C9 (Scenario B): a message delivered while an unexpired record for its
\* message_id exists (the dedup check finds the record) is skipped:
\* processMessage calls neither SendEmailEvent nor MarkAsProcessed, writes
\* nothing to the dead-letter topic, and commits the offset.
C9_ScenarioB ==
  \A c \in Consumers :
    Has(trace[c], "dedup_hit") =>
      /\ ~Sent(trace[c]) /\ ~Marked(trace[c]) /\ ~DeadLettered(trace[c])
      /\ \/ pc[c] = "commit" /\ trace[c] = <<"dedup_hit">>
         \/ pc[c] = "done" /\ trace[c] \in {<<"dedup_hit", "commit">>,
                                            <<"dedup_hit", "commit_failed">>}

C9_Witness ==
  \E c \in Consumers :
    /\ pc[c] = "done"
    /\ trace[c] = <<"dedup_hit", "commit">>
    /\ committed = cur[c]
    /\ IdOf(cur[c]) \in store

\* C10 (Scenario A): on first consumption of a valid message with no barrier
\* record and a sender that succeeds, the calls are, in this order: the
\* dedup check, exactly one SendEmailEvent, MarkAsProcessed returning true,
\* the commit. The commit never precedes the mark and the mark never
\* precedes the send.
ScenarioAPath == <<"dedup_miss", "send_ok", "mark_true">>

C10_ScenarioA ==
  \A c \in Consumers :
    LET t == trace[c] IN
    /\ (Len(t) >= 2 /\ t[1] = "dedup_miss" /\ t[2] = "send_ok" /\ ~Has(t, "mark_err")) =>
         \/ pc[c] = "mark" /\ t = SubSeq(ScenarioAPath, 1, 2)
         \/ pc[c] = "commit" /\ t = ScenarioAPath
         \/ pc[c] = "done" /\ t \in {Append(ScenarioAPath, "commit"),
                                     Append(ScenarioAPath, "commit_failed")}
    /\ \A i, j \in 1..Len(t) :
         /\ (t[i] \in {"commit", "commit_failed"} /\ t[j] \in {"mark_true", "mark_false"}) => j < i
         /\ (t[i] \in {"mark_true", "mark_false", "mark_err"} /\ t[j] \in {"send_ok", "send_fail"})
              => j < i

C10_Witness ==
  \E c \in Consumers :
    /\ pc[c] = "done"
    /\ trace[c] = Append(ScenarioAPath, "commit")
    /\ sentCount[IdOf(cur[c])] = 1
    /\ committed = cur[c]

\* C11 (Retry bound): with MaxRetries = 3 and a sender that fails on every
\* call, one processing makes exactly 3 SendEmailEvent calls, then one
\* sendToDLQ call (one dead-letter record for the message, when the write
\* goes through), then the commit.
ExhaustedPath == <<"dedup_miss", "send_fail", "send_fail", "send_fail">>

C11_RetryBound ==
  \A c \in Consumers :
    LET t == trace[c] IN
    /\ Count(t, "send_fail") + Count(t, "send_ok") <= 3
    /\ (Has(t, "send_fail") /\ ~Has(t, "send_ok") /\ pc[c] # "dispatch") =>
         \/ pc[c] = "dlq" /\ t = ExhaustedPath
         \/ pc[c] = "commit" /\ t \in {Append(ExhaustedPath, "dlq_ok"),
                                       Append(ExhaustedPath, "dlq_fail")}
         \/ /\ pc[c] = "done"
            /\ SubSeq(t, 1, 5) \in {Append(ExhaustedPath, "dlq_ok"),
                                    Append(ExhaustedPath, "dlq_fail")}
            /\ Len(t) = 6
            /\ t[6] \in {"commit", "commit_failed"}

C11_Witness ==
  \E c \in Consumers :
    /\ pc[c] = "done"
    /\ trace[c] = ExhaustedPath \o <<"dlq_ok", "commit">>
    /\ dlq[IdOf(cur[c])] = 1
    /\ sentCount[IdOf(cur[c])] = 0
    /\ committed = cur[c]

\* C12: a failure to write the dead-letter record (marshal or Produce error
\* in sendToDLQ) does not block the commit: after retries are exhausted the
\* commit is issued whether or not the dead-letter write succeeded.
C12_DLQFailureStillCommits ==
  \A c \in Consumers :
    LET t == trace[c] IN
    \A i \in 1..Len(t) :
      t[i] \in {"dlq_ok", "dlq_fail"} =>
        \/ pc[c] = "commit" /\ i = Len(t)
        \/ pc[c] = "done" /\ i = Len(t) - 1 /\ t[Len(t)] \in {"commit", "commit_failed"}

C12_Witness ==
  \E c \in Consumers :
    /\ pc[c] = "done"
    /\ trace[c] = ExhaustedPath \o <<"dlq_fail", "commit">>
    /\ dlq[IdOf(cur[c])] = 0
    /\ committed = cur[c]

\* C13: a message whose payload cannot be parsed, or whose message_id is
\* empty, is skipped for good: processMessage goes straight to the commit
\* and makes no barrier read or write, no SendEmailEvent call and no
\* dead-letter write.
C13_BadMessageSkipped ==
  \A c \in Consumers :
    (pc[c] \in {"dedup", "dispatch", "dlq", "mark", "commit", "done"}
       /\ ~WellFormed(cur[c])) =>
      \/ pc[c] = "commit" /\ trace[c] \in {<<"parse_error">>, <<"missing_id">>}
      \/ pc[c] = "done" /\ trace[c] \in {<<"parse_error", "commit">>,
                                         <<"parse_error", "commit_failed">>,
                                         <<"missing_id", "commit">>,
                                         <<"missing_id", "commit_failed">>}

C13_Witness ==
  \E c \in Consumers :
    /\ pc[c] = "done"
    /\ log[cur[c]] = [kind |-> "envelope", message_id |-> ""]
    /\ trace[c] = <<"missing_id", "commit">>
    /\ committed = cur[c]
    /\ store = {}

C15_BackoffMonotone ==
  \A c \in Consumers :
    /\ \A k \in 2..Len(slept[c]) : slept[c][k] >= slept[c][k-1]
    /\ \A k \in 1..Len(slept[c]) : slept[c][k] = backoff(k)

C15_Witness ==
  \E c \in Consumers :
    /\ Len(slept[c]) = 3
    /\ Count(trace[c], "send_fail") = 3
    /\ slept[c][3] > slept[c][1]

\* C16: the retry backoff schedule is 1s, 2s, 4s: the delay applied after
\* the k-th consecutive failed attempt is 1s for k = 1, 2s for k = 2 and 4s
\* for k = 3 (doubling).
C16_Schedule124 ==
  \A c \in Consumers :
    \A k \in 1..Len(slept[c]) : k <= 3 => slept[c][k] = 2^(k-1)

\* C17 (Per-partition ordering): within one consumer instance the messages
\* of the partition are taken in increasing offset order and one at a time:
\* the message in processMessage changes only when the previous call has
\* returned and the loop polls again, the new message has a higher offset,
\* and every call processMessage makes is for the message it holds. So the
\* first SendEmailEvent attempt for a lower offset precedes the first
\* attempt for a higher one.
C17_PartitionOrder ==
  [][\A c \in Consumers :
       restarts' = restarts =>
         /\ (pc[c] = "poll" /\ pc'[c] = "parse") => cur'[c] > cur[c]
         /\ cur'[c] # cur[c] => (pc[c] = "poll" /\ pc'[c] = "parse")
         /\ (trace'[c] # trace[c] /\ trace'[c] # <<>>) =>
              (cur'[c] = cur[c] /\ pc[c] \notin {"poll", "done"})]_vars

C17_Witness ==
  \E c \in Consumers :
    /\ restarts = 0
    /\ cur[c] = 2
    /\ pc[c] = "dispatch"
    /\ attempt[c] = 1
    /\ WellFormed(1)
    /\ IdOf(1) # IdOf(2)
    /\ sentCount[IdOf(1)] = 1
    /\ sentCount[IdOf(2)] = 0

\* C18 (Cooperative cancellation): the cancellation is observed only
\* between poll cycles. When the context is cancelled while
\* processWithRetry runs, the remaining attempts and backoff sleeps are
\* still made, and Start returns only after processMessage for the message
\* in flight has returned.
C18_CooperativeCancel ==
  /\ [](\A c \in Consumers :
          (cancelled /\ pc[c] \in {"dlq", "commit", "done"} /\ Has(trace[c], "send_fail")
             /\ ~Has(trace[c], "send_ok")) =>
            /\ Count(trace[c], "send_fail") = maxRetries
            /\ Len(slept[c]) = maxRetries - 1)
  /\ [][\A c \in Consumers :
          /\ (pc'[c] = "stopped" /\ pc[c] # "stopped") =>
               (cancelled /\ pc[c] \in {"poll", "done"})
          /\ (cancelled' /\ ~cancelled) => pc'[c] = pc[c]]_vars

C18_Witness ==
  \E c \in Consumers :
    /\ pc[c] = "stopped"
    /\ cancelAt[c] = <<"dispatch", 1>>
    /\ cur[c] = 1
    /\ dlq[IdOf(1)] = 1
    /\ committed = 1

\* C19 (Producer publish failure handling): when the envelope cannot be
\* serialized, PublishEmailEvent and PublishEmailEventSync return an error
\* and hand nothing to the log client; when the client rejects the produce
\* call, the error is returned to the caller; PublishEmailEvent returns nil
\* only when the message was handed to the client.
C19_PublishFailure ==
  /\ [](\A p \in Callers :
          LET r == lastCall[p] IN
          r.fn # "none" =>
            /\ Marshal(r.event).err <=> (r.err = "marshal")
            /\ r.err = "marshal" => (r.client = "not_called" /\ r.msg = 0)
            /\ r.client = "rejected" <=> (r.err = "produce")
            /\ r.err = "produce" => r.msg = 0
            /\ (r.fn = "async" /\ r.err = "nil") =>
                 (r.client = "accepted" /\ r.msg \in 1..produced))
  /\ [][\A p \in Callers :
          (ppc[p] = "idle" /\ lastCall'[p] # lastCall[p]) =>
            IF lastCall'[p].err \in {"marshal", "produce"}
              THEN outq' = outq /\ produced' = produced /\ log' = log
              ELSE outq' = Append(outq, [msg |-> lastCall'[p].msg,
                                         value |-> Marshal(lastCall'[p].event).data,
                                         chan |-> IF lastCall'[p].fn = "sync"
                                                    THEN p ELSE "events"])]_vars

C19_Witness ==
  \E p, q \in Callers :
    /\ lastCall[p].err = "marshal"
    /\ lastCall[q].fn = "async"
    /\ lastCall[q].err = "produce"
    /\ produced = 0
    /\ outq = <<>>

\* C20: PublishEmailEventSync blocks until the delivery report for its own
\* message arrives; it returns nil only if that report confirms the log has
\* persisted the message, and an error if the report carries a delivery
\* error; it never returns nil before the log has confirmed.
InQueue(m) == \E i \in 1..Len(outq) : outq[i].msg = m

C20_SyncWaitsForOwnReport ==
  \A p \in Callers :
    LET r == lastCall[p] IN
    r.fn = "sync" =>
      /\ r.err = "nil" => r.msg \in persisted
      /\ r.err = "delivery" => (r.msg \in 1..produced /\ r.msg \notin persisted
                                 /\ ~InQueue(r.msg))
      /\ r.err = "pending" <=> (ppc[p] = "waiting")
      /\ (r.err = "pending" /\ deliveryChan[p] # NoReport) =>
           deliveryChan[p].msg = r.msg

C20_Witness ==
  \E p, q \in Callers :
    /\ lastCall[p].fn = "sync"
    /\ lastCall[p].err = "nil"
    /\ lastCall[p].msg \in persisted
    /\ lastCall[q].fn = "sync"
    /\ lastCall[q].err = "delivery"
    /\ lastCall[q].msg \notin persisted

C22_DLQOnlyAfterExhaustion ==
  \A c \in Consumers :
    LET t == trace[c] IN
    (pc[c] = "dlq" \/ DeadLettered(t)) =>
      /\ t[1] = "dedup_miss"
      /\ Count(t, "send_fail") = maxRetries
      /\ Len(args[c]) = maxRetries
      /\ \A e \in {"send_ok", "parse_error", "missing_id", "dedup_hit", "dedup_err",
                    "mark_true", "mark_false", "mark_err"} : ~Has(t, e)
      /\ Count(t, "dlq_ok") + Count(t, "dlq_fail") <= 1

C22_Witness ==
  \E c \in Consumers :
    /\ cfgMaxRetries = 2
    /\ pc[c] = "commit"
    /\ trace[c] = <<"dedup_miss", "send_fail", "send_fail", "dlq_ok">>

\* C23 (Race loser): when MarkAsProcessed returns created=false without
\* error after a successful dispatch, the consumer still commits, does not
\* retry the dispatch, does not dead-letter the message and does not modify
\* the existing record: the record, while it lasts, has been written once.
C23_RaceLoser ==
  \A c \in Consumers :
    LET t == trace[c] IN
    Has(t, "mark_false") =>
      /\ Count(t, "send_ok") = 1
      /\ Count(t, "send_ok") + Count(t, "send_fail") = Len(args[c])
      /\ ~DeadLettered(t)
      /\ meta[IdOf(cur[c])] <= 1
      /\ \/ pc[c] = "commit" /\ t[Len(t)] = "mark_false"
         \/ /\ pc[c] = "done"
            /\ t[Len(t) - 1] = "mark_false"
            /\ t[Len(t)] \in {"commit", "commit_failed"}

C23_Witness ==
  \E c \in Consumers :
    /\ pc[c] = "done"
    /\ trace[c] = <<"dedup_miss", "send_ok", "mark_false", "commit">>
    /\ committed = cur[c]
    /\ meta[IdOf(cur[c])] = 1
    /\ sentCount[IdOf(cur[c])] = 2

C25_OnlyValidSessionPasses ==
  req # NoRequest =>
    /\ req.handled <=>
         /\ req.cookie # NoCookie
         /\ req.getErr = "nil"
         /\ req.stored # NoSession
         /\ req.at <= req.stored.ExpiresAt
    /\ ~req.handled <=> req.status = 401

C25_Witness ==
  /\ req.handled
  /\ req.status = 200
  /\ req.cookie \in SessionIDs
  /\ req.at = req.stored.ExpiresAt
  /\ now = req.at

\* C26: for an authenticated request the X-User-ID and X-User-Email
\* headers and the user_id and email context values seen downstream are
\* exactly the session's UserID and Email, whatever values the client
\* supplied for those headers.
C26_IdentityFromSession ==
  req.handled =>
    /\ req.xUserID = <<req.stored.UserID>>
    /\ req.xEmail = <<req.stored.Email>>
    /\ HeaderGet(req.xUserID) = req.stored.UserID
    /\ HeaderGet(req.xEmail) = req.stored.Email
    /\ req.user_id = req.stored.UserID
    /\ req.email = req.stored.Email

C26_Witness ==
  /\ req.handled
  /\ req.client.id # <<>>
  /\ HeaderGet(req.client.id) # req.stored.UserID
  /\ HeaderGet(req.client.email) # req.stored.Email
  /\ HeaderGet(req.xUserID) = req.stored.UserID

\* C27: every SendEmailEvent attempt of one processing receives the
\* envelope that was parsed from the log; it does not change between
\* attempts.
C27_SameEnvelope ==
  \A c \in Consumers :
    /\ Len(args[c]) = Count(trace[c], "send_ok") + Count(trace[c], "send_fail")
    /\ \A i \in 1..Len(args[c]) : args[c][i] = Unmarshal(log[cur[c]])

C27_Witness ==
  \E c \in Consumers :
    /\ Len(args[c]) = 3
    /\ args[c][3] = args[c][1]
    /\ args[c][3].MessageID \in MessageIDs
    /\ Has(trace[c], "send_ok")

\* C28: on final failure processWithRetry returns an error wrapping the
\* error of the last (maxRetries-th) attempt, not of an earlier one, and
\* the error field of the dead-letter record is the message of that error.
C28_LastErrorWrapped ==
  \A c \in Consumers :
    /\ pc[c] = "dlq" => lastErr[c] = SendError(maxRetries)
    /\ Has(trace[c], "dlq_ok") =>
         dlqError[IdOf(cur[c])] = <<"max retries exceeded: ", "send failed", maxRetries>>

C28_Witness ==
  \E c \in Consumers :
    /\ cfgMaxRetries = 3
    /\ pc[c] = "done"
    /\ Has(trace[c], "dlq_ok")
    /\ dlqError[IdOf(cur[c])] = Wrap(SendError(3))

\* C29: the number of SendEmailEvent calls in one processWithRetry run is
\* bounded by N, N = MaxRetries if MaxRetries > 0 and N = 3 otherwise; the
\* run returns an error if and only if all N attempts failed.
RetryLimit == IF cfgMaxRetries > 0 THEN cfgMaxRetries ELSE 3

C29_RetryCount ==
  \A c \in Consumers :
    LET t == trace[c] IN
    /\ Len(args[c]) <= RetryLimit
    /\ (Sent(t) /\ pc[c] # "dispatch") =>
         /\ (pc[c] = "dlq" \/ DeadLettered(t)) <=> (Count(t, "send_fail") = RetryLimit)
         /\ (pc[c] = "dlq" \/ DeadLettered(t)) <=> ~Has(t, "send_ok")
    /\ pc[c] = "dispatch" => Count(t, "send_fail") < RetryLimit

C29_Witness ==
  \E c \in Consumers :
    /\ cfgMaxRetries <= 0
    /\ pc[c] = "dlq"
    /\ Count(trace[c], "send_fail") = 3
    /\ Len(args[c]) = 3

\* C30: processWithRetry stops at the first successful attempt: when
\* attempt k succeeds there have been exactly k calls and k-1 sleeps and no
\* call follows the success; when all N attempts fail there are exactly
\* N-1 sleeps, none after the final failed attempt.
C30_StopsAtFirstSuccess ==
  \A c \in Consumers :
    LET t == trace[c]
        k == Count(t, "send_fail") IN
    /\ Count(t, "send_ok") <= 1
    /\ Has(t, "send_ok") =>
         /\ Len(args[c]) = k + 1
         /\ Len(slept[c]) = k
         /\ \A i, j \in 1..Len(t) :
              (t[i] = "send_ok" /\ i < j) => t[j] \notin {"send_ok", "send_fail"}
    /\ (pc[c] = "dlq" \/ DeadLettered(t)) =>
         (k = RetryLimit /\ Len(slept[c]) = RetryLimit - 1)
    /\ pc[c] = "dispatch" => Len(slept[c]) = k

C30_Witness ==
  \E c \in Consumers :
    /\ pc[c] = "mark"
    /\ trace[c] = <<"dedup_miss", "send_fail", "send_fail", "send_ok">>
    /\ slept[c] = <<1, 2>>
    /\ Len(args[c]) = 3

\* C32: IsProcessed(id) returns true without error if and only if an
\* unexpired record exists under the key for id; it returns an error when
\* the store is unreachable (and the message is then not dispatched); and
\* it never creates, changes or deletes a record.
C32_IsProcessedReadsRecord ==
  [][\A c \in Consumers :
       (pc[c] = "dedup" /\ pc'[c] # "dedup") =>
         LET id == evt[c].MessageID
             result == trace'[c][Len(trace'[c])] IN
         /\ store' = store /\ meta' = meta /\ markTrue' = markTrue
         /\ result \in {"dedup_hit", "dedup_miss", "dedup_err"}
         /\ result = "dedup_hit" => id \in store
         /\ result = "dedup_miss" => id \notin store
         /\ result = "dedup_err" => pc'[c] = "done"]_vars

C32_Witness ==
  \E c \in Consumers :
    /\ pc[c] = "dispatch"
    /\ trace[c] = <<"dedup_miss">>
    /\ sentCount[IdOf(cur[c])] = 1
    /\ IdOf(cur[c]) \notin store
    /\ meta[IdOf(cur[c])] = 0

\* C33: a MarkAsProcessed call that finds an existing record (returns
\* false) leaves that record's metadata and remaining TTL unchanged, and a
\* call that returns an error leaves the store unchanged: the records in
\* the store are exactly those created by a call that returned true, each
\* written once.
C33_FailedMarkLeavesStore ==
  \A id \in MessageIDs :
    /\ id \in store <=> markTrue[id] = 1
    /\ meta[id] = markTrue[id]

\* C33, amended: a call that returns false or an error never changes a
\* record that exists (its value and TTL are written once, when it is
\* created), and a call that returns true has created it; a call that
\* returns an error may have created the record all the same.
C33_FailedMarkKeepsRecord ==
  \A id \in MessageIDs :
    /\ id \in store <=> meta[id] = 1
    /\ meta[id] <= 1
    /\ markTrue[id] <= meta[id]

\* One consumer's call lost its reply and created the record, the other's
\* found it and returned false.
C33_Witness ==
  \E c, d \in Consumers :
    /\ c # d
    /\ cur[c] = cur[d]
    /\ cur[c] >= 1
    /\ pc[c] = "done"
    /\ trace[c][Len(trace[c])] = "mark_err"
    /\ Has(trace[d], "mark_false")
    /\ pc[d] = "commit"
    /\ IdOf(cur[c]) \in store
    /\ meta[IdOf(cur[c])] = 1
    /\ markTrue[IdOf(cur[c])] = 0

\* C34: for every message_id at most one dead-letter record is ever
\* written, over any sequence of deliveries and redeliveries of that
\* message (redelivery after a failed commit or after a crash between the
\* dead-letter write and the commit included). Stated for partitions in
\* which no two messages carry the same message_id.
DistinctIds ==
  \A i, j \in 1..Len(log) :
    (i # j /\ WellFormed(i) /\ WellFormed(j)) => IdOf(i) # IdOf(j)

C34_AtMostOneDLQRecord ==
  DistinctIds => \A id \in MessageIDs : dlq[id] <= 1

\* C35: the dead-letter path never writes the idempotency barrier: a
\* processing that ends in sendToDLQ does not call MarkAsProcessed, and
\* with no other processing of that message_id the barrier holds no record
\* for it afterwards.
C35_DLQNeverWritesBarrier ==
  \A c \in Consumers :
    (pc[c] = "dlq" \/ DeadLettered(trace[c])) =>
      /\ ~Marked(trace[c])
      /\ pc[c] # "mark"
      /\ IdOf(cur[c]) \notin store
      /\ meta[IdOf(cur[c])] = 0

C35_Witness ==
  \E c \in Consumers :
    /\ cfgMaxRetries = 1
    /\ pc[c] = "done"
    /\ trace[c] = <<"dedup_miss", "send_fail", "dlq_fail", "commit">>
    /\ store = {}

\* C36: if the shutdown signal arrives while a message is being processed
\* and its dispatch succeeds, the message is still marked processed and its
\* offset committed before Start returns (so that it is not sent a second
\* time after the consumer restarts). Stated on the return of that
\* processMessage call: it has marked the message and called commit.
C36_ShutdownCompletesMessage ==
  \A c \in Consumers :
    (/\ pc[c] = "done"
     /\ cancelAt[c][1] \in {"parse", "dedup", "dispatch", "mark", "commit"}
     /\ Has(trace[c], "send_ok")) =>
      /\ Has(trace[c], "mark_true") \/ Has(trace[c], "mark_false")
      /\ Committed(trace[c])

\* C37: Start terminates after cancellation: once the context is cancelled
\* Start returns after at most the poll in progress and the processing of
\* at most one further message (one that this poll returned), and it never
\* polls again after observing the cancellation.
C37_StartTerminates ==
  /\ cancelled ~> pc["c1"] = "stopped"
  /\ [][\A c \in Consumers :
          /\ (cancelled /\ pc[c] = "poll" /\ pc'[c] = "parse") => cancelAt[c][1] = "poll"
          /\ (pc[c] # "poll" /\ pc'[c] = "poll") => ~cancelled
          /\ pc[c] = "stopped" => pc'[c] = "stopped"]_vars

C37_Witness ==
  /\ pc["c1"] = "stopped"
  /\ cancelAt["c1"] = <<"poll", 0>>
  /\ cur["c1"] = Len(log)
  /\ cur["c1"] >= 1
  /\ pending["c1"] = "dedup"
  /\ committed = 0

\* C38: a poll that returns an error (a timeout or any other read error)
\* causes no dispatch, no barrier access, no dead-letter write and no
\* commit, and does not end the loop: the consumer goes to the next poll
\* cycle, where Start returns only if the context has been cancelled.
C38_PollErrorHarmless ==
  [][\A c \in Consumers :
       (pc[c] = "poll" /\ pc'[c] \notin {"poll", "parse"}) =>
         /\ cancelled
         /\ pc'[c] = "stopped"
         /\ UNCHANGED <<store, meta, markTrue, dlq, dlqError, sentCount, committed,
                        reached, trace, args, cur, pos>>]_vars

C38_Witness ==
  /\ pc["c1"] = "stopped"
  /\ cur["c1"] = 0
  /\ pos["c1"] = 1
  /\ Len(log) >= 1
  /\ sentCount = [id \in MessageIDs |-> 0]

\* C31: the dead-letter record carries the original envelope unchanged in
\* original_event (same message_id, event_type, timestamp, recipient and
\* data as the message read from the topic), the configured group in
\* consumer_group, and goes to the configured dead-letter topic, never to
\* the main topic.
C31_DLQRecordCarriesEnvelope ==
  \A i \in 1..Len(dlqMsg) :
    LET orig == dlqMsg[i].value.original_event IN
    /\ orig.message_id = rawValue.message_id
    /\ orig.event_type = rawValue.event_type
    /\ Instant(ParseTime(orig.timestamp)) = Instant(ParseTime(rawValue.timestamp))
    /\ orig.recipient = rawValue.recipient
    /\ orig.data = rawValue.data
    /\ dlqMsg[i].value.consumer_group = ConsumerGroup
    /\ dlqMsg[i].topic = DLQTopic
    /\ dlqMsg[i].topic # Topic

====
